---- MODULE Spec2Model ----
(***************************************************************************)
(* Daily exchange-rate loader: the incremental run (currency_api.py) and   *)
(* the historical backfill (currency_api_date.py).                         *)
(*                                                                         *)
(* Calendar dates are day ordinals counted from 2000-01-01 (ordinal 0);    *)
(* strftime/strptime are modelled as conversions between an ordinal and a  *)
(* day/month/year triple.  A pandas DataFrame is a sequence of row         *)
(* records, the table public.currency_rates a bag of rows, and the backup  *)
(* CSV a sequence of lines (NoFile while it does not exist).               *)
(***************************************************************************)
EXTENDS Integers, Sequences, FiniteSets, Bags, TLC

\* ------------------------------------------------------------------ bounds
Horizon == 1         \* days the wall clock may advance during a behaviour
MaxRuns == 1         \* incremental runs after the first one
Lag == 2             \* age in days of the rows a store may hold at the start
BackfillSpan == 3    \* days of the backfill range that are enumerated
MaxEntries == 2      \* entries of a provider document handed to one fetch alone

\* --------------------------------------------------------------- calendar
EpochYear == 2000

IsLeap(y) == (y % 4 = 0 /\ y % 100 # 0) \/ y % 400 = 0

DaysInMonth(y, m) ==
    IF m = 2 THEN (IF IsLeap(y) THEN 29 ELSE 28)
    ELSE IF m \in {4, 6, 9, 11} THEN 30 ELSE 31

RECURSIVE Civil(_, _, _)
\* the day/month/year of the day that lies n days after the first of m/y
Civil(n, y, m) ==
    IF n < DaysInMonth(y, m) THEN [d |-> n + 1, m |-> m, y |-> y]
    ELSE IF m = 12 THEN Civil(n - DaysInMonth(y, m), y + 1, 1)
    ELSE Civil(n - DaysInMonth(y, m), y, m + 1)

RECURSIVE DaysBefore(_, _)
\* days of year y that precede the first of month m
DaysBefore(y, m) == IF m = 1 THEN 0 ELSE DaysBefore(y, m - 1) + DaysInMonth(y, m - 1)

\* datetime(y, m, d).date() for a date of the epoch year
Ordinal(y, m, d) == DaysBefore(y, m) + d - 1

\* date.strftime('%d/%m/%Y'): the three fields of the formatted string
strftime(date) == Civil(date, EpochYear, 1)

\* datetime.strptime(s, '%d/%m/%Y').date()
strptime(s) == Ordinal(s.y, s.m, s.d)

\* date + timedelta(days=k)
timedelta(date, k) == date + k

\* a range that leaves out its last day
date_range_open(start, end) ==
    IF start >= end THEN <<>> ELSE [k \in 1..(end - start) |-> start + k - 1]

RECURSIVE date_range(_, _)
\* pd.date_range(start, end): every day from start to end, both included
date_range(start, end) ==
    IF start > end THEN <<>> ELSE <<start>> \o date_range(start + 1, end)

None == "None"

\* The outcome of a call: a returned value, or an exception leaving the callee.
Return(v) == [raised |-> FALSE, value |-> v]
Raise == [raised |-> TRUE]

\* ---------------------------------------------------------------- provider
\* Entries of the provider's XML document, each field the text of its element:
\* Value a number with a decimal comma, Nominal an integer.  The empty text
\* stands for an element that is missing (a NaN cell of pd.read_xml).
EntryUSD ==
    [CharCode |-> "USD", Name |-> "US Dollar", Nominal |-> <<"1">>,
     Value |-> <<"9", "0", ",", "5", "0">>]
EntryJPY ==
    [CharCode |-> "JPY", Name |-> "Yen", Nominal |-> <<"1", "0", "0">>,
     Value |-> <<"6", "1", ",", "2">>]
EntryBad ==
    [CharCode |-> "XDR", Name |-> "SDR", Nominal |-> <<"1">>,
     Value |-> <<"-">>]
EntryNoValue ==
    [CharCode |-> "GBP", Name |-> "Pound", Nominal |-> <<"1">>, Value |-> <<>>]
EntryNoNominal ==
    [CharCode |-> "CHF", Name |-> "Franc", Nominal |-> <<>>,
     Value |-> <<"9", "9", ",", "1">>]
EntryBadNominal ==
    [CharCode |-> "CNY", Name |-> "Yuan", Nominal |-> <<"x">>,
     Value |-> <<"1", "2", ",", "5">>]
EntryZeroNominal ==
    [CharCode |-> "TRY", Name |-> "Lira", Nominal |-> <<"0">>,
     Value |-> <<"2", ",", "5">>]
EntryPlain ==
    [CharCode |-> "KZT", Name |-> "Tenge", Nominal |-> <<"1", "0">>,
     Value |-> <<"7", "5">>]
EntryNoCode ==
    [CharCode |-> "", Name |-> "Unnamed", Nominal |-> <<"1">>,
     Value |-> <<"3", ",", "5">>]

\* What one GET of the daily snapshot can come back with.
Responses ==
    { [kind |-> "timeout", entries |-> <<>>],        \* requests.get raises
      [kind |-> "http_error", entries |-> <<>>],     \* raise_for_status raises
      [kind |-> "malformed", entries |-> <<>>],      \* pd.read_xml raises
      [kind |-> "xml", entries |-> <<EntryUSD, EntryJPY>>],
      [kind |-> "xml", entries |-> <<EntryUSD, EntryBad>>] }

Digits == {"0", "1", "2", "3", "4", "5", "6", "7", "8", "9"}

DigitVal(c) ==
    CASE c = "0" -> 0 [] c = "1" -> 1 [] c = "2" -> 2 [] c = "3" -> 3
      [] c = "4" -> 4 [] c = "5" -> 5 [] c = "6" -> 6 [] c = "7" -> 7
      [] c = "8" -> 8 [] c = "9" -> 9

\* Series.str.replace(',', '.') on one string
str_replace(s) == [k \in 1..Len(s) |-> IF s[k] = "," THEN "." ELSE s[k]]

RECURSIVE Pow10(_)
Pow10(k) == IF k = 0 THEN 1 ELSE 10 * Pow10(k - 1)

RECURSIVE DigitsVal(_)
DigitsVal(s) == IF s = <<>> THEN 0 ELSE 10 * DigitsVal(SubSeq(s, 1, Len(s) - 1)) + DigitVal(s[Len(s)])

\* astype(float) on one string: digits with at most one '.', as the exact
\* fraction num/den; anything else raises ValueError.
astype_float(s) ==
    LET dots == {k \in 1..Len(s) : s[k] = "."}
        ok   == /\ s # <<>>
                /\ \A k \in 1..Len(s) : s[k] \in Digits \cup {"."}
                /\ Cardinality(dots) <= 1
                /\ \E k \in 1..Len(s) : s[k] \in Digits
    IN  IF ~ok THEN Raise
        ELSE IF dots = {} THEN Return([num |-> DigitsVal(s), den |-> 1])
        ELSE LET p == CHOOSE k \in dots : TRUE
                 frac == Len(s) - p
             IN  Return([num |-> DigitsVal(SubSeq(s, 1, p - 1) \o SubSeq(s, p + 1, Len(s))),
                         den |-> Pow10(frac)])

\* df['Value'] / df['Nominal'] on one row, as the exact fraction; a zero
\* divisor gives den = 0 (numpy's inf, no exception)
Divide(v, n) == [num |-> v.num, den |-> v.den * n]

Columns == <<"Date", "CurrencyCode", "CurrencyName", "Nominal", "Value", "Rate">>

\* float('nan'): the fraction 0/0
NaN == [num |-> 0, den |-> 0]

\* pd.read_xml takes a text for a number: digits with at most one '.'
IsNum(s) == ~astype_float(s).raised

\* the digits before the '.' of a number: what astype(int) keeps of it
IntPart(s) ==
    LET dots == {k \in 1..Len(s) : s[k] = "."}
    IN  IF dots = {} THEN DigitsVal(s)
        ELSE DigitsVal(SubSeq(s, 1, (CHOOSE k \in dots : TRUE) - 1))

\* df['Value'].str.replace(',', '.').astype(float) on the column: .str exists
\* only when pd.read_xml left texts in it (some Value is no plain number); a
\* NaN cell stays NaN
ValueColumn(entries) ==
    IF ~\E k \in 1..Len(entries) : entries[k].Value # <<>> /\ ~IsNum(entries[k].Value)
    THEN Raise
    ELSE LET vals == [k \in 1..Len(entries) |->
                        IF entries[k].Value = <<>> THEN Return(NaN)
                        ELSE astype_float(str_replace(entries[k].Value))]
         IN  IF \E k \in 1..Len(entries) : vals[k].raised THEN Raise
             ELSE Return([k \in 1..Len(entries) |-> vals[k].value])

\* df['Nominal'].astype(int) on the column: a NaN cell or a text that is no
\* number raises; a column of numbers is cut to integers
NominalColumn(entries) ==
    IF \E k \in 1..Len(entries) : ~IsNum(entries[k].Nominal) THEN Raise
    ELSE Return([k \in 1..Len(entries) |-> IntPart(entries[k].Nominal)])

\* a processing that keeps the rows whose numbers parse and drops the others
Transform_salvage(entries, date) ==
    LET Parses(e) == /\ ~astype_float(str_replace(e.Value)).raised
                     /\ IsNum(e.Nominal)
        kept == SelectSeq(entries, Parses)
    IN  Return([k \in 1..Len(kept) |->
                [Date         |-> date,
                 CurrencyCode |-> kept[k].CharCode,
                 CurrencyName |-> kept[k].Name,
                 Nominal      |-> IntPart(kept[k].Nominal),
                 Value        |-> astype_float(str_replace(kept[k].Value)).value,
                 Rate         |-> Divide(astype_float(str_replace(kept[k].Value)).value,
                                         IntPart(kept[k].Nominal))]])

\* the processing of one fetched frame, shared by both programs:
\* Value -> float, Nominal -> int, Rate, rename, column selection (a column no
\* entry has is missing from the frame: KeyError)
Transform(entries, date) ==
    LET vals == ValueColumn(entries)
        noms == NominalColumn(entries)
    IN  IF \/ entries = <<>>
           \/ vals.raised \/ noms.raised
           \/ \A k \in 1..Len(entries) : entries[k].CharCode = ""
           \/ \A k \in 1..Len(entries) : entries[k].Name = ""
        THEN Raise
        ELSE Return([k \in 1..Len(entries) |->
                [Date         |-> date,
                 CurrencyCode |-> entries[k].CharCode,
                 CurrencyName |-> entries[k].Name,
                 Nominal      |-> noms.value[k],
                 Value        |-> vals.value[k],
                 Rate         |-> Divide(vals.value[k], noms.value[k])]])

\* pd.DataFrame(): the frame without rows
EmptyFrame == <<>>

\* ------------------------------------------------ currency_api.py (incremental)
\* the try block of get_cbr_rates
FetchBody(date_req, response) ==
    IF response.kind # "xml" THEN Raise
    ELSE Transform(response.entries, strptime(strftime(date_req)))

\* get_cbr_rates: the frame, or an empty frame on any exception
get_cbr_rates(date_req, response) ==
    LET df == FetchBody(date_req, response)
    IN  IF df.raised THEN Return(EmptyFrame) ELSE df

\* get_db_engine: the engine when the SELECT 1 probe succeeds, else None
get_db_engine(probeOk) == IF probeOk THEN "engine" ELSE None

RECURSIVE SeqToBag(_)
SeqToBag(rows) ==
    IF rows = <<>> THEN EmptyBag
    ELSE SetToBag({rows[1]}) (+) SeqToBag(Tail(rows))

\* the dates held by a table
Dates(table) == {r.Date : r \in BagToSet(table)}

Max(S) == CHOOSE x \in S : \A y \in S : y <= x

\* a query that answers the earliest date of the table instead of the latest
QueryMaxDate_min(engine, queryOk, table) ==
    IF engine = None \/ ~queryOk THEN Raise
    ELSE IF Dates(table) = {} THEN Return([null |-> TRUE])
    ELSE Return([null |-> FALSE,
                 date |-> CHOOSE x \in Dates(table) : \A y \in Dates(table) : x <= y])

\* SELECT MAX("Date") FROM public.currency_rates: raises when the engine is
\* None or the statement fails, NULL (None) on an empty table
QueryMaxDate(engine, queryOk, table) ==
    IF engine = None \/ ~queryOk THEN Raise
    ELSE IF Dates(table) = {} THEN Return([null |-> TRUE])
    ELSE Return([null |-> FALSE, date |-> Max(Dates(table))])

\* the except clause left out: the query's exception leaves the function
get_last_loaded_date_noexcept(engine, queryOk, table, now) ==
    LET result == QueryMaxDate(engine, queryOk, table)
    IN  IF result.raised THEN Raise
        ELSE IF result.value.null THEN Return(timedelta(now, -1))
        ELSE Return(result.value.date)

\* get_last_loaded_date
get_last_loaded_date(engine, queryOk, table, now) ==
    LET result == QueryMaxDate(engine, queryOk, table)
    IN  IF result.raised THEN Return(timedelta(now, -1))
        ELSE IF result.value.null THEN Return(timedelta(now, -1))
        ELSE Return(result.value.date)

\* the header line of the CSV: the column names of the frame
HeaderLine == [header |-> Columns]

NoFile == [exists |-> FALSE, lines |-> <<>>]

\* a header written by every call
to_csv_header(frame, f) ==
    [exists |-> TRUE, lines |-> f.lines \o <<HeaderLine>> \o frame]

\* a writer that leaves out the rows the file already holds
to_csv_dedup(df, file) ==
    [exists |-> TRUE,
     lines  |-> file.lines \o (IF file.exists THEN <<>> ELSE <<HeaderLine>>)
                \o SelectSeq(df, LAMBDA r : \A k \in 1..Len(file.lines) : file.lines[k] # r)]

\* df.to_csv(csv_path, mode='a', header=not csv_path.exists(), index=False)
to_csv(df, file) ==
    [exists |-> TRUE,
     lines  |-> file.lines \o (IF file.exists THEN <<>> ELSE <<HeaderLine>>) \o df]

\* a save_data that goes on to the CSV when to_sql raises
save_data_fallback(df, engine, writeOk, table, file) ==
    IF engine # None /\ writeOk
    THEN Return([ok |-> TRUE, sink |-> "store", table |-> table (+) SeqToBag(df), file |-> file])
    ELSE Return([ok |-> TRUE, sink |-> "file", table |-> table, file |-> to_csv(df, file)])

\* the except clause of the to_sql branch left out
save_data_noexcept(df, engine, writeOk, table, file) ==
    IF engine # None
    THEN IF writeOk
         THEN Return([ok |-> TRUE, sink |-> "store", table |-> table (+) SeqToBag(df), file |-> file])
         ELSE Raise
    ELSE IF writeOk
         THEN Return([ok |-> TRUE, sink |-> "file", table |-> table, file |-> to_csv(df, file)])
         ELSE Return([ok |-> FALSE, sink |-> "file", table |-> table, file |-> file])

\* save_data: [ok, table, file] after the call
save_data(df, engine, writeOk, table, file) ==
    IF engine # None
    THEN IF writeOk
         THEN Return([ok |-> TRUE, sink |-> "store", table |-> table (+) SeqToBag(df), file |-> file])
         ELSE Return([ok |-> FALSE, sink |-> "store", table |-> table, file |-> file])
    ELSE IF writeOk
         THEN Return([ok |-> TRUE, sink |-> "file", table |-> table, file |-> to_csv(df, file)])
         ELSE Return([ok |-> FALSE, sink |-> "file", table |-> table, file |-> file])

RECURSIVE concat(_)
\* pd.concat(all_data, ignore_index=True)
concat(frames) == IF frames = <<>> THEN <<>> ELSE frames[1] \o concat(Tail(frames))

\* the range test left out
RangeEmpty_never(start, end) == FALSE

\* the bound of the range test shifted by one day
RangeEmpty_off(start, end) == start > end + 1

\* line 143: nothing is left to load
RangeEmpty(start, end) == start > end

\* a test that takes every frame to hold rows
empty_never(df) == FALSE

\* df.empty
empty(df) == Len(df) = 0

\* ------------------------------------------------------------------- state
VARIABLES
    today,       \* the calendar date datetime.now().date() returns
    table,       \* public.currency_rates: a bag of rows
    file,        \* currency_backup.csv
    pc,          \* the step the running program has reached
    engine,      \* main's engine: "engine" or None
    last_date, start_date, end_date,   \* main's locals (0 before they are set)
    dates,       \* the planned range
    i,           \* index into dates of the next date to fetch
    all_data,    \* the frames accumulated so far
    df,          \* the frame the last fetch returned
    saved,       \* the outcome of this run's save_data call
    fatal,       \* an exception reached the except clause of main
    exit_code,   \* the status of sys.exit, 0 while none was called
    log,         \* what this run did, in order
    runs,        \* runs started after the first one
    prev,        \* summary of the previous run
    csvCalls,    \* every save_data call that went to the CSV, in call order
    snap         \* the table and the file as they were when this run started

vars == <<today, table, file, pc, engine, last_date, start_date, end_date, dates,
          i, all_data, df, saved, fatal, exit_code, log, runs, prev, csvCalls, snap>>

\* lines 155-156: a frame with rows joins all_data, an empty one is dropped
Accumulate(frames, frame) == IF ~empty(frame) THEN Append(frames, frame) ELSE frames

\* a loop that asks again for a date that came back without rows
NextDate_retry(k, frame) == IF empty(frame) THEN k ELSE k + 1

\* a loop that gives up at the first date without rows
NextDate_stop(k, frame) == IF empty(frame) THEN Len(dates) + 1 ELSE k + 1

\* the for loop of main (line 153): the index of the date after dates[k]
NextDate(k, frame) == k + 1

\* the first calendar day of a behaviour: 2000-02-28, so that the clock
\* crosses the leap day and the end of the month
FirstDay == Ordinal(EpochYear, 2, 28)
MaxDay == FirstDay + Horizon

\* rows loaded Lag days before the first day, by an earlier run
Seeded == SeqToBag(Transform(<<EntryUSD>>, FirstDay - Lag).value)

NotSaved == [called |-> FALSE, ok |-> FALSE, sink |-> None]
NoPrev == [valid |-> FALSE]

locals == <<engine, last_date, start_date, end_date, dates, i, all_data, df, saved,
            fatal, exit_code>>

InitLocals ==
    /\ engine = None
    /\ last_date = 0 /\ start_date = 0 /\ end_date = 0
    /\ dates = <<>> /\ i = 1 /\ all_data = <<>> /\ df = EmptyFrame
    /\ saved = NotSaved
    /\ fatal = FALSE
    /\ exit_code = 0

Init ==
    /\ today = FirstDay
    /\ table \in {EmptyBag, Seeded}
    /\ file = NoFile
    /\ pc = "INIT"
    /\ InitLocals
    /\ log = <<>>
    /\ runs = 0
    /\ prev = NoPrev
    /\ csvCalls = <<>>
    /\ snap = [table |-> table, file |-> file]

\* the dates of this run whose fetch returned no rows although a later date's
\* fetch returned some
SkippedDates ==
    {strptime(log[k].date_str) : k \in {n \in 1..Len(log) :
        /\ log[n].ev = "fetch" /\ Len(log[n].df) = 0
        /\ \E m \in (n + 1)..Len(log) : log[m].ev = "fetch" /\ Len(log[m].df) > 0}}

\* the dates of this run whose fetch returned rows
DatesWithData == {strptime(log[k].date_str) : k \in {n \in 1..Len(log) : log[n].ev = "fetch" /\ Len(log[n].df) > 0}}

\* ------------------------------------------------------------- environment
\* Midnight passes.  main reads the clock at lines 138 (68, 71) and 140 only,
\* so a midnight during the later steps of a run is taken once the run is over.
Tick ==
    /\ pc \in {"RESOLVE_STORE", "RESOLVE_WATERMARK", "DONE"}
    /\ today < MaxDay
    /\ today' = today + 1
    /\ UNCHANGED <<table, file, pc, locals, log, runs, prev, csvCalls, snap>>

\* ---------------------------------------------------- main (currency_api.py)
\* lines 168-169: the except clause of main
Fatal ==
    /\ pc' = "DONE"
    /\ fatal' = TRUE
    /\ UNCHANGED <<today, table, file, engine, last_date, start_date, end_date,
                   dates, i, all_data, df, saved, exit_code, log, runs, prev, csvCalls, snap>>

\* lines 133-135
ResolveStore ==
    /\ pc = "INIT"
    /\ \E probeOk \in BOOLEAN : engine' = get_db_engine(probeOk)
    /\ pc' = "RESOLVE_STORE"
    /\ log' = Append(log, [ev |-> "connect"])
    /\ UNCHANGED <<today, table, file, last_date, start_date, end_date, dates, i,
                   all_data, df, saved, fatal, exit_code, runs, prev, csvCalls, snap>>

\* line 138
ResolveWatermark ==
    /\ pc = "RESOLVE_STORE"
    /\ \E queryOk \in BOOLEAN :
         LET r == IF engine # None
                  THEN get_last_loaded_date(engine, queryOk, table, today)
                  ELSE Return(timedelta(today, -1))
         IN  IF r.raised THEN Fatal
             ELSE /\ last_date' = r.value
                  /\ pc' = "RESOLVE_WATERMARK"
                  /\ log' = Append(log, [ev |-> "watermark", queried |-> engine # None,
                                         queryOk |-> queryOk, now |-> today])
                  /\ UNCHANGED <<today, table, file, engine, start_date, end_date,
                                 dates, i, all_data, df, saved, fatal, exit_code, runs,
                                 prev, csvCalls, snap>>

\* lines 139-151
PlanRange ==
    /\ pc = "RESOLVE_WATERMARK"
    /\ start_date' = timedelta(last_date, 1)
    /\ end_date' = today
    /\ IF RangeEmpty(start_date', end_date')
       THEN /\ pc' = "DONE"
            /\ log' = Append(log, [ev |-> "no_new_data"])
            /\ UNCHANGED <<dates, i, all_data>>
       ELSE /\ dates' = date_range(start_date', end_date')
            /\ all_data' = <<>>
            /\ i' = 1
            /\ pc' = "PLAN_RANGE"
            /\ log' = Append(log, [ev |-> "plan"])
    /\ UNCHANGED <<today, table, file, engine, last_date, df, saved, fatal, exit_code,
                   runs, prev, csvCalls, snap>>

\* lines 153-157: one turn of the loop
Fetch ==
    /\ pc \in {"PLAN_RANGE", "ACCUMULATE", "SKIP"}
    /\ i <= Len(dates)
    /\ \E response \in Responses :
         LET r == get_cbr_rates(dates[i], response)
         IN  IF r.raised THEN Fatal
             ELSE /\ df' = r.value
                  /\ all_data' = Accumulate(all_data, r.value)
                  /\ i' = NextDate(i, r.value)
                  /\ pc' = IF ~empty(r.value) THEN "ACCUMULATE" ELSE "SKIP"
                  /\ log' = Append(log, [ev |-> "fetch", date_str |-> strftime(dates[i]),
                                         df |-> r.value])
                  /\ UNCHANGED <<today, table, file, engine, last_date, start_date,
                                 end_date, dates, saved, fatal, exit_code, runs, prev,
                                 csvCalls, snap>>

\* lines 159-166
PersistBatch ==
    /\ pc \in {"PLAN_RANGE", "ACCUMULATE", "SKIP"}
    /\ i > Len(dates)
    /\ IF all_data = <<>>
       THEN /\ pc' = "DONE"
            /\ log' = Append(log, [ev |-> "nothing_to_save"])
            /\ UNCHANGED <<today, table, file, engine, last_date, start_date, end_date,
                           dates, i, all_data, df, saved, fatal, exit_code, runs, prev,
                           csvCalls, snap>>
       ELSE \E writeOk \in BOOLEAN :
              LET final_df == concat(all_data)
                  r == save_data(final_df, engine, writeOk, table, file)
              IN  IF r.raised THEN Fatal
                  ELSE /\ table' = r.value.table
                       /\ file' = r.value.file
                       /\ saved' = [called |-> TRUE, ok |-> r.value.ok, sink |-> r.value.sink]
                       /\ csvCalls' = IF r.value.sink = "file"
                                      THEN Append(csvCalls, [df |-> final_df, ok |-> r.value.ok])
                                      ELSE csvCalls
                       /\ pc' = "PERSIST_BATCH"
                       /\ log' = Append(log, [ev |-> "persist", df |-> final_df,
                                              ok |-> r.value.ok, sink |-> r.value.sink,
                                              writeOk |-> writeOk])
                       /\ UNCHANGED <<today, engine, last_date, start_date, end_date,
                                      dates, i, all_data, df, fatal, exit_code, runs, prev, snap>>

\* main returns after save_data
Finish ==
    /\ pc = "PERSIST_BATCH"
    /\ pc' = "DONE"
    /\ UNCHANGED <<today, table, file, locals, log, runs, prev, csvCalls, snap>>

\* the scheduler starts the program again
NextRun ==
    /\ pc = "DONE"
    /\ runs < MaxRuns
    /\ runs' = runs + 1
    /\ prev' = [valid |-> TRUE, fatal |-> fatal,
                resolved |-> \E k \in 1..Len(log) : log[k].ev = "watermark",
                W |-> last_date,
                hasData |-> DatesWithData # {},
                D |-> IF DatesWithData # {} THEN Max(DatesWithData) ELSE 0,
                saved |-> saved,
                skipped |-> (IF prev.valid THEN prev.skipped ELSE {})
                            \cup (IF saved.called /\ saved.ok /\ saved.sink = "store"
                                  THEN SkippedDates ELSE {})]
    /\ pc' = "INIT"
    /\ engine' = None
    /\ last_date' = 0 /\ start_date' = 0 /\ end_date' = 0
    /\ dates' = <<>> /\ i' = 1 /\ all_data' = <<>> /\ df' = EmptyFrame
    /\ saved' = NotSaved
    /\ fatal' = FALSE
    /\ exit_code' = 0
    /\ log' = <<>>
    /\ snap' = [table |-> table, file |-> file]
    /\ UNCHANGED <<today, table, file, csvCalls>>

Next ==
    \/ Tick
    \/ ResolveStore
    \/ ResolveWatermark
    \/ PlanRange
    \/ Fetch
    \/ PersistBatch
    \/ Finish
    \/ NextRun

Spec == Init /\ [][Next]_vars

\* the statements of main: a started run keeps executing (every call it makes
\* returns or times out), while the clock and the scheduler owe nothing
MainStep ==
    \/ ResolveStore
    \/ ResolveWatermark
    \/ PlanRange
    \/ Fetch
    \/ PersistBatch
    \/ Finish

SpecFair == Spec /\ WF_vars(MainStep)

\* --------------------------------------- currency_api_date.py (backfill)
\* get_db_engine: the engine when the SELECT 1 probe succeeds, else None
get_db_engine_date(probeOk) == IF probeOk THEN "engine" ELSE None

\* the try block of get_cbr_rates: the frame carries date_req.date()
FetchBody_date(date_req, response) ==
    IF response.kind # "xml" THEN Raise
    ELSE Transform(response.entries, date_req)

\* get_cbr_rates: the frame, or an empty frame on any exception
get_cbr_rates_date(date_req, response) ==
    LET frame == FetchBody_date(date_req, response)
    IN  IF frame.raised THEN Return(EmptyFrame) ELSE frame

\* the try block of save_data: to_sql, then the log line reading df['Date'].iloc[0]
SaveBody_date(frame, writeOk, rows) ==
    IF ~writeOk \/ empty(frame) THEN Raise
    ELSE Return(rows (+) SeqToBag(frame))

\* save_data: True with the rows appended, False on any exception
save_data_date(frame, writeOk, rows) ==
    LET r == SaveBody_date(frame, writeOk, rows)
    IN  IF r.raised THEN Return([ok |-> FALSE, table |-> rows])
        ELSE Return([ok |-> TRUE, table |-> r.value])

\* a test that lets a missing engine through
NoEngine_never(e) == FALSE

\* line 95: if not engine
NoEngine(e) == e = None

\* a loop that ends at the first date without rows
NextDate_date_stop(k, frame) == IF Len(frame) = 0 THEN Len(dates) + 1 ELSE k + 1

\* the for loop of main (line 107): the index of the date after dates[k]
NextDate_date(k, frame) == k + 1

\* lines 99-100: 2000-01-02 and the last day of the range
BackfillStart == Ordinal(EpochYear, 1, 2)
BackfillEnd == BackfillStart + BackfillSpan - 1

\* an exception no handler catches ends the interpreter with status 1
Crash ==
    /\ pc' = "CRASHED"
    /\ exit_code' = 1
    /\ UNCHANGED <<today, table, file, engine, last_date, start_date, end_date,
                   dates, i, all_data, df, saved, fatal, log, runs, prev, csvCalls, snap>>

\* lines 94-105
DateConnect ==
    /\ pc = "INIT"
    /\ \E probeOk \in BOOLEAN : engine' = get_db_engine_date(probeOk)
    /\ IF NoEngine(engine')
       THEN /\ pc' = "EXITED"
            /\ exit_code' = 1
            /\ log' = Append(log, [ev |-> "exit"])
            /\ UNCHANGED <<start_date, end_date, dates, i>>
       ELSE /\ start_date' = BackfillStart
            /\ end_date' = BackfillEnd
            /\ dates' = date_range(start_date', end_date')
            /\ i' = 1
            /\ pc' = "LOOP"
            /\ log' = Append(log, [ev |-> "connect"])
            /\ UNCHANGED exit_code
    /\ UNCHANGED <<today, table, file, last_date, all_data, df, saved, fatal, runs,
                   prev, csvCalls, snap>>

\* line 108
DateFetch ==
    /\ pc = "LOOP"
    /\ i <= Len(dates)
    /\ \E response \in Responses :
         LET r == get_cbr_rates_date(dates[i], response)
         IN  IF r.raised THEN Crash
             ELSE /\ df' = r.value
                  /\ pc' = "FETCHED"
                  /\ log' = Append(log, [ev |-> "fetch", date_str |-> strftime(dates[i]),
                                         df |-> r.value])
                  /\ UNCHANGED <<today, table, file, engine, last_date, start_date,
                                 end_date, dates, i, all_data, saved, fatal, exit_code,
                                 runs, prev, csvCalls, snap>>

\* lines 109-113
DateSave ==
    /\ pc = "FETCHED"
    /\ IF ~empty(df)
       THEN \E writeOk \in BOOLEAN :
              LET r == save_data_date(df, writeOk, table)
              IN  IF r.raised THEN Crash
                  ELSE /\ table' = r.value.table
                       /\ saved' = [called |-> TRUE, ok |-> r.value.ok, sink |-> "store"]
                       /\ pc' = "SLEEP"
                       /\ log' = Append(log, [ev |-> "persist", df |-> df,
                                              ok |-> r.value.ok, sink |-> "store",
                                              writeOk |-> writeOk])
                       /\ UNCHANGED <<today, file, engine, last_date, start_date,
                                      end_date, dates, i, all_data, df, fatal, exit_code,
                                      runs, prev, csvCalls, snap>>
       ELSE /\ pc' = "SLEEP"
            /\ log' = Append(log, [ev |-> "no_data"])
            /\ UNCHANGED <<today, table, file, engine, last_date, start_date, end_date,
                           dates, i, all_data, df, saved, fatal, exit_code, runs, prev,
                           csvCalls, snap>>

\* line 116, and the loop moves to the next date
DateSleep ==
    /\ pc = "SLEEP"
    /\ i' = NextDate_date(i, df)
    /\ pc' = "LOOP"
    /\ log' = Append(log, [ev |-> "sleep"])
    /\ UNCHANGED <<today, table, file, engine, last_date, start_date, end_date, dates,
                   all_data, df, saved, fatal, exit_code, runs, prev, csvCalls, snap>>

\* line 118
DateFinish ==
    /\ pc = "LOOP"
    /\ i > Len(dates)
    /\ pc' = "FINISHED"
    /\ log' = Append(log, [ev |-> "finished"])
    /\ UNCHANGED <<today, table, file, locals, runs, prev, csvCalls, snap>>

NextDateRun ==
    \/ DateConnect
    \/ DateFetch
    \/ DateSave
    \/ DateSleep
    \/ DateFinish

SpecDate == Init /\ [][NextDateRun]_vars

\* one run of either program
NextAll ==
    \/ ResolveStore
    \/ ResolveWatermark
    \/ PlanRange
    \/ Fetch
    \/ PersistBatch
    \/ Finish
    \/ NextDateRun

SpecAll == Init /\ [][NextAll]_vars

\* ---------------------------------------------------------------------------
\* get_cbr_rates on its own: one call of either program's fetch, on any date
\* of the model and any outcome of the provider
\* ---------------------------------------------------------------------------

\* the entries a provider document is made of
Catalog ==
    {EntryUSD, EntryJPY, EntryBad, EntryNoValue, EntryNoNominal,
     EntryBadNominal, EntryZeroNominal, EntryPlain, EntryNoCode}

\* what requests.get and pd.read_xml can hand to one call
ProviderOutcomes ==
    { [kind |-> "timeout", entries |-> <<>>],
      [kind |-> "http_error", entries |-> <<>>],
      [kind |-> "malformed", entries |-> <<>>] }
    \cup { [kind |-> "xml", entries |-> e] :
             e \in UNION {[1..n -> Catalog] : n \in 0..MaxEntries} }

\* the dates either main asks for
FetchDates == ((FirstDay - Lag)..MaxDay) \cup (BackfillStart..BackfillEnd)

InitFetch ==
    /\ today = FirstDay
    /\ table = EmptyBag
    /\ file = NoFile
    /\ pc = "CALL"
    /\ engine = None
    /\ last_date = 0 /\ start_date = 0 /\ end_date = 0
    /\ dates \in {<<d>> : d \in FetchDates}
    /\ i = 1 /\ all_data = <<>> /\ df = EmptyFrame
    /\ saved = NotSaved
    /\ fatal = FALSE
    /\ exit_code = 0
    /\ log \in {<<[ev |-> "call", program |-> p, response |-> r]>> :
                  p \in {"currency_api", "currency_api_date"}, r \in ProviderOutcomes}
    /\ runs = 0
    /\ prev = NoPrev
    /\ csvCalls = <<>>
    /\ snap = [table |-> table, file |-> file]

\* df = get_cbr_rates(date) of currency_api.py
Call ==
    /\ pc = "CALL"
    /\ log[1].program = "currency_api"
    /\ LET r == get_cbr_rates(dates[1], log[1].response)
       IN  IF r.raised
           THEN pc' = "RAISED" /\ df' = df
           ELSE pc' = "RETURNED" /\ df' = r.value
    /\ UNCHANGED <<today, table, file, engine, last_date, start_date, end_date,
                   dates, i, all_data, saved, fatal, exit_code, log, runs, prev,
                   csvCalls, snap>>

\* df = get_cbr_rates(date) of currency_api_date.py
Call_date ==
    /\ pc = "CALL"
    /\ log[1].program = "currency_api_date"
    /\ LET r == get_cbr_rates_date(dates[1], log[1].response)
       IN  IF r.raised
           THEN pc' = "RAISED" /\ df' = df
           ELSE pc' = "RETURNED" /\ df' = r.value
    /\ UNCHANGED <<today, table, file, engine, last_date, start_date, end_date,
                   dates, i, all_data, saved, fatal, exit_code, log, runs, prev,
                   csvCalls, snap>>

NextFetch == Call \/ Call_date

SpecFetch == InitFetch /\ [][NextFetch]_vars

\* ================================================================== claims
\* the events of one kind in this run's log, in order
Events(kind) == SelectSeq(log, LAMBDA e : e.ev = kind)

\* this run has resolved its watermark
Resolved == Events("watermark") # <<>>

\* the rows of the frames of a sequence of events, in order
RECURSIVE RowsOf(_)
RowsOf(events) == IF events = <<>> THEN <<>> ELSE events[1].df \o RowsOf(Tail(events))

\* C1: monotonic progress - when the previous incremental run had data through
\* date D and its save_data call returned True, the watermark this run resolves
\* is not earlier than D, whichever sink the previous run wrote to and whether
\* or not the store answers in this run.
C1_MonotonicProgress ==
    (prev.valid /\ prev.hasData /\ prev.saved.called /\ prev.saved.ok /\ Resolved)
        => last_date >= prev.D

\* C2: range-based duplicate avoidance - across incremental runs, the planner
\* never asking again for a date the table holds, the table never holds two
\* rows with the same (Date, CurrencyCode), also when the watermark query fails
\* or the connection is lost and regained.
C2_NoDuplicateRows ==
    \A r1, r2 \in BagToSet(table) :
        (r1.Date = r2.Date /\ r1.CurrencyCode = r2.CurrencyCode)
            => (r1 = r2 /\ CopiesIn(r1, table) = 1)

\* C3: failure isolation of the incremental run - whatever dates fail or come
\* back empty, the dates requested so far are the first dates of the range, each
\* once and in order; persistence is reached only after the last date was
\* requested; and the frame handed to save_data holds the rows of exactly the
\* fetches that returned rows, in order.
C3_FailureIsolation ==
    LET fetches == Events("fetch")
        saves == Events("persist")
    IN  /\ Len(fetches) = i - 1
        /\ Len(fetches) <= Len(dates)
        /\ \A k \in 1..Len(fetches) : fetches[k].date_str = strftime(dates[k])
        /\ (pc \in {"PERSIST_BATCH", "DONE"} /\ ~fatal /\ Events("plan") # <<>>)
              => Len(fetches) = Len(dates)
        /\ Len(saves) <= 1
        /\ \A k \in 1..Len(saves) :
              /\ Len(fetches) = Len(dates)
              /\ saves[k].df = RowsOf(fetches)
              /\ {r.Date : r \in {saves[k].df[n] : n \in 1..Len(saves[k].df)}} = DatesWithData

\* C3 witness: of three planned dates the second came back empty, and the rows
\* of the first and the third were saved.
C3_Witness ==
    LET fetches == Events("fetch")
    IN  /\ pc = "PERSIST_BATCH"
        /\ Len(dates) = 3
        /\ Len(fetches) = 3
        /\ Len(fetches[1].df) > 0 /\ Len(fetches[2].df) = 0 /\ Len(fetches[3].df) > 0
        /\ saved.called /\ saved.ok
        /\ DatesWithData = {dates[1], dates[3]}
        /\ Dates(table) \ Dates(snap.table) = {dates[1], dates[3]}

\* C4: empty-range short-circuit - a run whose watermark is today or later
\* (start_date > end_date) ends at the range test: no fetch, no save_data call,
\* table and file as they were when the run started, no exception.
C4_EmptyRangeShortCircuit ==
    (pc \notin {"INIT", "RESOLVE_STORE", "RESOLVE_WATERMARK"} /\ start_date > end_date)
        => /\ pc = "DONE"
           /\ ~fatal
           /\ Events("fetch") = <<>>
           /\ Events("persist") = <<>>
           /\ ~saved.called
           /\ table = snap.table
           /\ file = snap.file

\* C4 witness: a run that found the watermark equal to today and ended at once,
\* the table holding today's rows
C4_Witness ==
    /\ pc = "DONE"
    /\ Resolved
    /\ last_date = end_date /\ end_date = today
    /\ start_date > end_date
    /\ today \in Dates(table)
    /\ Events("no_new_data") # <<>>

\* the save_data calls that went to the CSV and returned True
CsvWrites == SelectSeq(csvCalls, LAMBDA c : c.ok)

C6_WatermarkResult ==
    /\ ~fatal
    /\ (Resolved /\ Events("persist") = <<>>) =>
          LET e == Events("watermark")[1]
          IN  last_date = IF e.queried /\ e.queryOk /\ Dates(table) # {}
                          THEN Max(Dates(table))
                          ELSE e.now - 1
    /\ \A queryOk \in BOOLEAN :
          /\ get_last_loaded_date(None, queryOk, table, today) = Return(today - 1)
          /\ ~get_last_loaded_date("engine", queryOk, table, today).raised
          /\ get_last_loaded_date("engine", FALSE, table, today) = Return(today - 1)

\* C6 witness: the query succeeded on a table holding two dates, and the later
\* one, older than yesterday, became the watermark
C6_Witness ==
    /\ pc = "RESOLVE_WATERMARK"
    /\ Events("watermark")[1].queried /\ Events("watermark")[1].queryOk
    /\ Cardinality(Dates(table)) = 2
    /\ last_date = Max(Dates(table))
    /\ last_date < today - 1

\* C7: a failing write never leaves save_data as an exception - in either
\* program the call returns False, no exception reaches main, and the run goes
\* on to its next step.
C7_WriteErrorContained ==
    LET saves == Events("persist")
    IN  /\ ~fatal
        /\ pc # "CRASHED"
        /\ \A k \in 1..Len(saves) : saves[k].ok = saves[k].writeOk
        /\ (saved.called /\ ~saved.ok) => (exit_code = 0 /\ Len(saves) > 0)

\* C7 witness: the backfill finished although the write of one date failed and
\* a later date was fetched after it
C7_Witness ==
    /\ pc = "FINISHED"
    /\ \E a, b \in 1..Len(log) :
          /\ a < b
          /\ log[a].ev = "persist" /\ ~log[a].writeOk /\ ~log[a].ok
          /\ log[b].ev = "fetch"

\* C8: the backfill without an engine exits with a non-zero status before any
\* date is fetched and before anything is written to the table or a file.
C8_BackfillPrecondition ==
    (pc # "INIT" /\ engine = None)
        => /\ pc = "EXITED"
           /\ exit_code # 0
           /\ Events("fetch") = <<>>
           /\ Events("persist") = <<>>
           /\ table = snap.table
           /\ file = snap.file

\* C8 witness: the probe failed and the backfill exited with status 1
C8_Witness ==
    /\ pc = "EXITED"
    /\ engine = None
    /\ exit_code = 1

\* the fetches of this run that returned rows
FetchesWithRows == SelectSeq(Events("fetch"), LAMBDA e : Len(e.df) > 0)

C10_BackfillSequencing ==
    /\ \A k \in 1..Len(log) :
          /\ log[k].ev = "fetch" =>
                /\ k > 1 /\ log[k - 1].ev \in {"connect", "sleep"}
                /\ k < Len(log) =>
                      log[k + 1].ev = IF Len(log[k].df) > 0 THEN "persist" ELSE "no_data"
                /\ k + 1 < Len(log) => log[k + 2].ev = "sleep"
          /\ log[k].ev = "persist" =>
                /\ log[k - 1].ev = "fetch"
                /\ log[k].df = log[k - 1].df
                /\ Len(log[k].df) > 0
                /\ \A n \in 1..Len(log[k].df) :
                      strftime(log[k].df[n].Date) = log[k - 1].date_str
          /\ log[k].ev = "sleep" => log[k - 1].ev \in {"persist", "no_data"}
          /\ log[k].ev = "finished" => log[k - 1].ev = "sleep"
    /\ pc \in {"SLEEP", "LOOP", "FINISHED"} =>
          Len(Events("persist")) = Len(FetchesWithRows)
    /\ pc \in {"LOOP", "FINISHED"} => Len(Events("sleep")) = Len(Events("fetch"))

\* C10 witness: the first two dates both returned rows; each was saved on its
\* own and followed by the pause
C10_Witness ==
    LET saves == Events("persist")
    IN  /\ pc = "FINISHED"
        /\ Len(saves) = Len(dates)
        /\ saves[1].ok /\ saves[2].ok
        /\ saves[1].df # saves[2].df
        /\ Len(Events("sleep")) = Len(dates)

\* the steps main may take from one orchestrator state to the next
PathEdges ==
    { <<"INIT", "RESOLVE_STORE">>,
      <<"RESOLVE_STORE", "RESOLVE_WATERMARK">>,
      <<"RESOLVE_WATERMARK", "PLAN_RANGE">>,
      <<"RESOLVE_WATERMARK", "DONE">>,
      <<"PLAN_RANGE", "ACCUMULATE">>, <<"PLAN_RANGE", "SKIP">>,
      <<"ACCUMULATE", "SKIP">>, <<"SKIP", "ACCUMULATE">>,
      <<"ACCUMULATE", "PERSIST_BATCH">>, <<"SKIP", "PERSIST_BATCH">>,
      <<"SKIP", "DONE">>,
      <<"PERSIST_BATCH", "DONE">>,
      <<"DONE", "INIT">> }

\* C11 as stated, its last part: a run that is DONE without a save_data call
\* planned an empty range.
C11_OnlyEmptyRangeSkipsPersist ==
    (pc = "DONE" /\ Events("persist") = <<>>) => Events("plan") = <<>>

\* C11 as amended: every incremental run goes INIT, RESOLVE_STORE,
\* RESOLVE_WATERMARK, PLAN_RANGE, one fetch per planned date (each ending in
\* ACCUMULATE or SKIP), at most one PERSIST_BATCH, DONE; save_data is not called
\* before the last date was fetched; and a run reaches DONE without
\* PERSIST_BATCH exactly when its range is empty or no fetch returned rows.
C11_OrchestratorPath ==
    /\ [](Len(Events("persist")) <= 1)
    /\ []((pc = "DONE" /\ Events("persist") = <<>>)
             => (Events("plan") = <<>> \/ (all_data = <<>> /\ i = Len(dates) + 1)))
    /\ []((pc = "DONE" /\ Events("persist") # <<>>)
             => (Events("plan") # <<>> /\ all_data # <<>>))
    /\ [][/\ pc' # pc => <<pc, pc'>> \in PathEdges
          /\ (pc' = "PERSIST_BATCH" /\ pc # "PERSIST_BATCH") =>
                /\ Len(Events("fetch")) = Len(dates)
                /\ Len(dates) > 0
                /\ Len(Events("persist")') = 1
          /\ (pc \in {"PLAN_RANGE", "ACCUMULATE", "SKIP"} /\ pc' \in {"ACCUMULATE", "SKIP"}) =>
                /\ Len(Events("fetch")') = Len(Events("fetch")) + 1
                /\ (pc' = "ACCUMULATE") <=> (Len(all_data') = Len(all_data) + 1)
          /\ (pc = "RESOLVE_WATERMARK" /\ pc' = "DONE") => start_date' > end_date'
          /\ (pc = "SKIP" /\ pc' = "DONE") => all_data = <<>>]_vars

\* C11 witness: a run planned two dates or more, no fetch returned rows, and it
\* is DONE without a save_data call
C11_Witness ==
    /\ pc = "DONE"
    /\ Events("plan") # <<>>
    /\ Len(dates) >= 2
    /\ Len(Events("fetch")) = Len(dates)
    /\ all_data = <<>>
    /\ Events("persist") = <<>>
    /\ Events("nothing_to_save") # <<>>

\* how far main is from its return: the statements left, then the dates left
Rank ==
    CASE pc = "INIT" -> 5
      [] pc = "RESOLVE_STORE" -> 4
      [] pc = "RESOLVE_WATERMARK" -> 3
      [] pc \in {"PLAN_RANGE", "ACCUMULATE", "SKIP"} -> 2
      [] pc = "PERSIST_BATCH" -> 1
      [] OTHER -> 0

DatesLeft == IF pc \in {"PLAN_RANGE", "ACCUMULATE", "SKIP"} THEN Len(dates) + 1 - i ELSE 0

\* C12: best-effort termination - whatever fails (probe, watermark query, any
\* fetches, the write), a started incremental run reaches DONE; every statement
\* brings it closer, and no exception leaves main.
C12_Termination ==
    /\ [](pc # "CRASHED")
    /\ [](DatesLeft >= 0)
    /\ [][(pc # "DONE" /\ <<pc, i, log>>' # <<pc, i, log>>) =>
             \/ Rank' < Rank
             \/ (Rank' = Rank /\ DatesLeft' < DatesLeft)]_vars
    /\ ((pc = "INIT") ~> (pc = "DONE"))

\* C12 witness: the watermark query failed, one fetch failed, the write failed,
\* and the run is DONE without an exception
C12_Witness ==
    /\ pc = "DONE"
    /\ ~fatal
    /\ engine # None
    /\ ~Events("watermark")[1].queryOk
    /\ \E k \in 1..Len(Events("fetch")) : Len(Events("fetch")[k].df) = 0
    /\ saved.called /\ ~saved.ok

\* this run has passed the range test of line 143
Planned == Events("plan") # <<>> \/ Events("no_new_data") # <<>>

\* C13: range planning - from watermark W and today T the planner yields the
\* dates W+1, W+2, ..., T, each once, ascending, both ends included, and no date
\* when W+1 > T; the sequence is this function of W and T in every run,
\* whatever the table, the file and the engine are.
C13_RangePlanning ==
    /\ Planned =>
          /\ start_date = last_date + 1
          /\ Len(dates) = IF end_date > last_date THEN end_date - last_date ELSE 0
          /\ \A k \in 1..Len(dates) : dates[k] = last_date + k
          /\ (Events("no_new_data") # <<>>) <=> (last_date + 1 > end_date)
    /\ \A W \in (FirstDay - Lag - 1)..MaxDay : \A T \in FirstDay..MaxDay :
          LET r == date_range(timedelta(W, 1), T)
          IN  /\ Len(r) = IF T > W THEN T - W ELSE 0
              /\ \A k \in 1..Len(r) : r[k] = W + k

\* C13 witness: three dates planned, from the day after the watermark to today
C13_Witness ==
    /\ pc = "PLAN_RANGE"
    /\ Len(dates) = 3
    /\ dates[1] = last_date + 1
    /\ dates[2] = last_date + 2
    /\ dates[3] = end_date
    /\ end_date = today

\* C14: fetch is all-or-nothing and never throws.  Whatever the date and the
\* provider's outcome (request error, bad status, malformed or empty document,
\* a missing or unparseable field in any entry), the call of either program
\* returns to its caller, and what it returns is the empty table or the complete
\* one: a record per provider entry, in the provider's order, each carrying the
\* requested date.  An outcome that is no document gives the empty table.
C14_FetchAllOrNothing ==
    /\ pc # "RAISED"
    /\ pc = "RETURNED" =>
         LET entries == log[1].response.entries
         IN  /\ \/ Len(df) = 0
                \/ /\ Len(df) = Len(entries)
                   /\ \A k \in 1..Len(df) :
                        /\ df[k].CurrencyCode = entries[k].CharCode
                        /\ df[k].CurrencyName = entries[k].Name
                        /\ df[k].Date = dates[1]
             /\ log[1].response.kind # "xml" => Len(df) = 0

\* a document whose first entry is sound and whose second has an unparseable
\* value came back as the empty table
C14_Witness ==
    /\ pc = "RETURNED"
    /\ log[1].response.kind = "xml"
    /\ log[1].response.entries = <<EntryUSD, EntryBad>>
    /\ Len(df) = 0

\* C15: every record of a table returned by fetch has nominal >= 1 and a rate
\* equal to face value / nominal (compared as exact fractions).
C15_RecordInvariant ==
    pc = "RETURNED" =>
        \A k \in 1..Len(df) :
            /\ df[k].Nominal >= 1
            /\ df[k].Value.den # 0 /\ df[k].Rate.den # 0
            /\ df[k].Rate.num * df[k].Value.den * df[k].Nominal
                 = df[k].Value.num * df[k].Rate.den

\* the store answered this run's watermark query
ResolvedFromStore ==
    \E k \in 1..Len(log) : log[k].ev = "watermark" /\ log[k].queried /\ log[k].queryOk

\* C16: skipped dates are never retried.  When an earlier run's fetch of a
\* date D2 returned nothing while that run wrote rows of a later date to the
\* store, a later run that resolves its watermark from the store has a
\* watermark past D2 and neither plans nor requests D2, and no later run adds a
\* row dated D2 to the store.
C16_SkippedNeverRetried ==
    prev.valid =>
        \A D2 \in prev.skipped :
            /\ ResolvedFromStore =>
                 /\ last_date > D2
                 /\ \A k \in 1..Len(dates) : dates[k] # D2
                 /\ \A k \in 1..Len(log) :
                      log[k].ev = "fetch" => strptime(log[k].date_str) # D2
            /\ \A r \in BagToSet(table) :
                 r.Date = D2 => CopiesIn(r, table) = CopiesIn(r, snap.table)

\* after a run that skipped a date and stored a later one, the next run
\* resolved from the store and has fetched a date
C16_Witness ==
    /\ prev.valid /\ prev.saved.called /\ prev.saved.ok /\ prev.saved.sink = "store"
    /\ prev.skipped # {}
    /\ ResolvedFromStore
    /\ Events("fetch") # <<>>

\* C17: no fallback on write failure.  When the run holds a live engine, its
\* save_data call goes to the store only and leaves the CSV file as it was,
\* whether to_sql succeeds or raises; when to_sql raises, the table is left as
\* it was too and save_data returns False.
C17_NoFallbackOnWriteFailure ==
    (pc = "PERSIST_BATCH" /\ engine # None) =>
        LET e == Events("persist")[1]
        IN  /\ e.sink = "store"
            /\ file = snap.file
            /\ ~e.writeOk => (table = snap.table /\ saved.called /\ ~saved.ok /\ ~e.ok)
            /\ e.writeOk => (table = snap.table (+) SeqToBag(e.df) /\ saved.ok)

\* to_sql raised in a run with a live engine while the CSV file of an earlier
\* fallback run exists
C17_Witness ==
    /\ pc = "PERSIST_BATCH" /\ engine # None
    /\ ~Events("persist")[1].writeOk
    /\ file.exists

\* this run has resolved its watermark without an engine
FallbackRun == Resolved /\ ~Events("watermark")[1].queried

\* the rows of a sequence that carry a date
RowsDated(rows, date) == SelectSeq(rows, LAMBDA r : r.Date = date)

\* C18 as stated: a run whose store connection failed at startup plans and
\* fetches exactly one date, the day the range end is read.
C18_FallbackFetchesToday ==
    (FallbackRun /\ Planned) =>
        /\ dates = <<end_date>>
        /\ pc \in {"PERSIST_BATCH", "DONE"} => Len(Events("fetch")) = 1

\* C18 as amended: a run whose store connection failed at startup takes the
\* day before its first clock reading as watermark and plans every date from
\* that reading through its second one, whatever the file and the table hold:
\* one date, today, when both readings fall on the same day, and the two days
\* when midnight passes in between; it fetches each planned date once.  Two
\* such runs that both had data for a date and both wrote the CSV leave that
\* date's rows of both runs in the file.
C18_FallbackPlanning ==
    /\ (FallbackRun /\ Planned) =>
         LET now == Events("watermark")[1].now
             fetches == Events("fetch")
         IN  /\ last_date = now - 1
             /\ Events("plan") # <<>>
             /\ Len(dates) = end_date - now + 1
             /\ \A k \in 1..Len(dates) : dates[k] = now + k - 1
             /\ end_date = now => dates = <<end_date>>
             /\ Len(fetches) <= Len(dates)
             /\ \A k \in 1..Len(fetches) : strptime(fetches[k].date_str) = dates[k]
             /\ pc \in {"PERSIST_BATCH", "DONE"} => Len(fetches) = Len(dates)
    /\ (/\ FallbackRun /\ pc = "PERSIST_BATCH" /\ saved.ok
        /\ prev.valid /\ prev.saved.called /\ prev.saved.ok /\ prev.saved.sink = "file") =>
         LET n == Len(CsvWrites)
             first == CsvWrites[n - 1].df
             second == CsvWrites[n].df
         IN  /\ n >= 2
             /\ \A T \in FirstDay..MaxDay :
                  Len(RowsDated(Tail(file.lines), T))
                      >= Len(RowsDated(first, T)) + Len(RowsDated(second, T))
             /\ \A k \in 1..Len(second) :
                  (\E m \in 1..Len(first) : first[m] = second[k]) =>
                      Len(SelectSeq(Tail(file.lines), LAMBDA r : r = second[k])) >= 2

\* two runs without an engine on the same day both fetched data for that day
\* and both wrote the CSV
C18_Witness ==
    /\ FallbackRun /\ pc = "PERSIST_BATCH" /\ saved.ok
    /\ prev.valid /\ prev.saved.called /\ prev.saved.ok /\ prev.saved.sink = "file"
    /\ prev.hasData /\ prev.D = end_date
    /\ dates = <<end_date>>
    /\ Len(Events("persist")[1].df) > 0
====
